---- MODULE Spec2Model ----
(***************************************************************************)
(* Model of the executable threading code of the repository.               *)
(*                                                                         *)
(* The repository is study material.  Its only state machines are the      *)
(* small threading programs: Threading/Simple.cpp and the examples of      *)
(* "Threading/C++ - Threads.md".  The "Thread Pooling" section of that     *)
(* document (lines 338-344) is three sentences of prose; the repository    *)
(* holds no queue, worker, pool, submit, shutdown or result-handle code,   *)
(* so no definition below models one.                                      *)
(*                                                                         *)
(* Every program has the same shape: main starts the threads t1 and t2,    *)
(* joins both and returns.  The variable prog says which program runs:     *)
(*   "simple"       Threading/Simple.cpp                                   *)
(*   "cv"           the condition-variable example   (Threads.md 235-271)  *)
(*   "lock_guard"   the lock_guard counter           (Threads.md 116-139)  *)
(*   "lock_unlock"  the lock()/unlock() counter      (Threads.md 145-169)  *)
(*   "unique_lock"  the unique_lock counter          (Threads.md 174-198)  *)
(*   "atomic"       the std::atomic example          (Threads.md 297-332)  *)
(*   "tl_global"    the thread_local global example  (part_000 426-444)    *)
(*   "tl_local"     the thread_local local example   (part_000 456-486)    *)
(* Spec runs the programs without loops, MutexSpec the three counter       *)
(* programs, AtomicSpec the std::atomic example (which has a third thread, *)
(* t3).                                                                    *)
(***************************************************************************)
EXTENDS Integers, Sequences, FiniteSets, TLC

\* The two std::thread objects of main (Simple.cpp:12-13).
Threads == {"t1", "t2"}

\* The string each thread passes to printMessage (Simple.cpp:12-13).
Message(t) == IF t = "t1" THEN "Hello from thread 1" ELSE "Hello from thread 2"

\* The line main prints after the joins (Simple.cpp:19).
FinalMessage == "Threads have finished execution."

VARIABLES
    prog,       \* which program runs
    mainPc,     \* position of main: "spawn1","spawn2","join1","join2","print","endl","flush","done"
    threadPc,   \* position of each thread: "unstarted", ..., "finished"
    out,        \* what has been inserted into cout so far, in order
    flushed,    \* how many of these insertions a flush has written out
    ready,      \* cv example: the flag ready
    mtx,        \* cv example: owner of mtx, or "free"
    cvWaiting,  \* cv example: threads blocked inside cv.wait
    cvMissed,   \* cv example: notify_one was issued before waitThread entered cv.wait
    spurious,   \* cv example: number of spurious wakeups so far
    counter,    \* counter examples: the shared int counter
    myMutex,    \* counter examples: owner of myMutex, or "free"
    i,          \* counter and atomic examples: each thread's loop variable
    reg,        \* counter examples: the value each thread loaded for ++counter, 0 outside it
    shown,      \* counter examples: the counter value main printed, -1 before
    atomicCounter,  \* atomic example: std::atomic<int> atomicCounter
    sharedValue,    \* atomic example: std::atomic<int> sharedValue
    t3Pc,           \* atomic example: position of t3 (updateValue)
    current,        \* atomic example: updateValue's local current, -1 before the load
    expected,       \* atomic example: updateValue's parameter expected
    updated,        \* atomic example: which branch updateValue printed: "none","updated","found"
    shownAtomic,    \* atomic example: the atomicCounter value main printed, -1 before
    shownShared,    \* atomic example: the sharedValue value main printed, -1 before
    tlInstance,     \* thread_local examples: each thread's instance of the variable
    calls,          \* thread_local examples: calls each thread has completed
    tlPrinted       \* thread_local examples: the values each thread printed, in order

cvVars == <<ready, mtx, cvWaiting, cvMissed, spurious>>

mutexVars == <<counter, myMutex, i, reg, shown>>

atomicVars == <<atomicCounter, sharedValue, t3Pc, current, expected, updated, shownAtomic, shownShared>>

tlsVars == <<tlInstance, calls, tlPrinted>>

vars == <<prog, mainPc, threadPc, out, flushed, cvVars, mutexVars, atomicVars, tlsVars>>

\* Bound of the model: the number of spurious wakeups of cv.wait in one run.
MaxSpurious == 2

\* The programs Spec runs.
Programs == {"simple", "cv", "tl_global", "tl_local"}

\* State at entry of main, common to all programs: no thread constructed,
\* nothing printed, globals at their initialisers.
InitState ==
    /\ mainPc = "spawn1"
    /\ threadPc = [t \in Threads |-> "unstarted"]
    /\ out = <<>>
    /\ flushed = 0
    /\ ready = FALSE
    /\ mtx = "free"
    /\ cvWaiting = {}
    /\ cvMissed = FALSE
    /\ spurious = 0
    /\ counter = 0
    /\ myMutex = "free"
    /\ i = [t \in Threads |-> 0]
    /\ reg = [t \in Threads |-> 0]
    /\ shown = -1
    /\ atomicCounter = 0
    /\ sharedValue = 10
    /\ t3Pc = "unstarted"
    /\ current = -1
    /\ expected = 10
    /\ updated = "none"
    /\ shownAtomic = -1
    /\ shownShared = -1
    /\ tlInstance = [t \in Threads |-> 0]
    /\ calls = [t \in Threads |-> 0]
    /\ tlPrinted = [t \in Threads |-> <<>>]

Init ==
    /\ prog \in Programs
    /\ InitState

\* thread t1(printMessage, ...): the constructor starts the thread (Simple.cpp:12).
SpawnT1 ==
    /\ prog = "simple"
    /\ mainPc = "spawn1"
    /\ mainPc' = "spawn2"
    /\ threadPc' = [threadPc EXCEPT !["t1"] = "str"]
    /\ UNCHANGED <<prog, out, flushed, cvVars, mutexVars, atomicVars, tlsVars>>

\* thread t2(printMessage, ...) (Simple.cpp:13).
SpawnT2 ==
    /\ prog = "simple"
    /\ mainPc = "spawn2"
    /\ mainPc' = "join1"
    /\ threadPc' = [threadPc EXCEPT !["t2"] = "str"]
    /\ UNCHANGED <<prog, out, flushed, cvVars, mutexVars, atomicVars, tlsVars>>

\* printMessage, first insertion: cout << str (Simple.cpp:8).
PrintStr(t) ==
    /\ prog = "simple"
    /\ threadPc[t] = "str"
    /\ out' = Append(out, Message(t))
    /\ UNCHANGED flushed
    /\ threadPc' = [threadPc EXCEPT ![t] = "endl"]
    /\ UNCHANGED <<prog, mainPc, cvVars, mutexVars, atomicVars, tlsVars>>

\* printMessage, << endl: endl first inserts the newline (Simple.cpp:8).
PrintEndl(t) ==
    /\ prog = "simple"
    /\ threadPc[t] = "endl"
    /\ out' = Append(out, "\n")
    /\ UNCHANGED flushed
    /\ threadPc' = [threadPc EXCEPT ![t] = "flush"]
    /\ UNCHANGED <<prog, mainPc, cvVars, mutexVars, atomicVars, tlsVars>>

\* printMessage, << endl: endl then flushes cout, and the function returns
\* (Simple.cpp:8-9).
PrintFlush(t) ==
    /\ prog = "simple"
    /\ threadPc[t] = "flush"
    /\ flushed' = Len(out)
    /\ threadPc' = [threadPc EXCEPT ![t] = "finished"]
    /\ UNCHANGED <<prog, mainPc, out, cvVars, mutexVars, atomicVars, tlsVars>>

\* t1.join(): returns only once t1 has finished (Simple.cpp:16).
JoinT1 ==
    /\ prog = "simple"
    /\ mainPc = "join1"
    /\ threadPc["t1"] = "finished"
    /\ mainPc' = "join2"
    /\ UNCHANGED <<prog, threadPc, out, flushed, cvVars, mutexVars, atomicVars, tlsVars>>

\* Mutant of JoinT2: main goes on without waiting for t2 (a detach in place
\* of the join).
JoinT2NoWait ==
    /\ prog = "simple"
    /\ mainPc = "join2"
    /\ mainPc' = "print"
    /\ UNCHANGED <<prog, threadPc, out, flushed, cvVars, mutexVars, atomicVars, tlsVars>>

\* t2.join() (Simple.cpp:17).
JoinT2 ==
    /\ prog = "simple"
    /\ mainPc = "join2"
    /\ threadPc["t2"] = "finished"
    /\ mainPc' = "print"
    /\ UNCHANGED <<prog, threadPc, out, flushed, cvVars, mutexVars, atomicVars, tlsVars>>

\* std::cout << "Threads have finished execution." (Simple.cpp:19).
MainPrint ==
    /\ prog = "simple"
    /\ mainPc = "print"
    /\ out' = Append(out, FinalMessage)
    /\ UNCHANGED flushed
    /\ mainPc' = "endl"
    /\ UNCHANGED <<prog, threadPc, cvVars, mutexVars, atomicVars, tlsVars>>

\* << std::endl: the newline (Simple.cpp:19).
MainEndl ==
    /\ prog = "simple"
    /\ mainPc = "endl"
    /\ out' = Append(out, "\n")
    /\ UNCHANGED flushed
    /\ mainPc' = "flush"
    /\ UNCHANGED <<prog, threadPc, cvVars, mutexVars, atomicVars, tlsVars>>

\* << std::endl: the flush; return 0 (Simple.cpp:19-20).
MainFlush ==
    /\ prog = "simple"
    /\ mainPc = "flush"
    /\ flushed' = Len(out)
    /\ mainPc' = "done"
    /\ UNCHANGED <<prog, threadPc, out, cvVars, mutexVars, atomicVars, tlsVars>>

(***************************************************************************)
(* The condition-variable example (Threads.md 235-271).                    *)
(* t1 runs waitThread, t2 runs signalThread.                               *)
(***************************************************************************)

\* The line waitThread prints (Threads.md:247).
NotifiedMessage == "Thread notified, condition met."

\* std::thread t1(waitThread) (Threads.md:260).
CvSpawnT1 ==
    /\ prog = "cv"
    /\ mainPc = "spawn1"
    /\ mainPc' = "spawn2"
    /\ threadPc' = [threadPc EXCEPT !["t1"] = "w_lock"]
    /\ UNCHANGED <<prog, out, flushed, cvVars, mutexVars, atomicVars, tlsVars>>

\* std::thread t2(signalThread) (Threads.md:261).
CvSpawnT2 ==
    /\ prog = "cv"
    /\ mainPc = "spawn2"
    /\ mainPc' = "join1"
    /\ threadPc' = [threadPc EXCEPT !["t2"] = "s_sleep"]
    /\ UNCHANGED <<prog, out, flushed, cvVars, mutexVars, atomicVars, tlsVars>>

\* waitThread: std::unique_lock<std::mutex> lock(mtx) acquires mtx (Threads.md:245).
CvWaitLock ==
    /\ prog = "cv"
    /\ threadPc["t1"] = "w_lock"
    /\ mtx = "free"
    /\ mtx' = "t1"
    /\ threadPc' = [threadPc EXCEPT !["t1"] = "w_check"]
    /\ UNCHANGED <<prog, mainPc, out, flushed, ready, cvWaiting, cvMissed, spurious, mutexVars, atomicVars, tlsVars>>

\* cv.wait(lock, pred) is while (!pred()) wait(lock): the test of the
\* predicate, made with mtx held (Threads.md:246).
CvWaitCheck ==
    /\ prog = "cv"
    /\ threadPc["t1"] = "w_check"
    /\ threadPc' = [threadPc EXCEPT !["t1"] = IF ready THEN "w_print" ELSE "w_wait"]
    /\ UNCHANGED <<prog, mainPc, out, flushed, cvVars, mutexVars, atomicVars, tlsVars>>

\* wait(lock): releases mtx and blocks on cv, as one atomic step (Threads.md:246).
CvWaitBlock ==
    /\ prog = "cv"
    /\ threadPc["t1"] = "w_wait"
    /\ mtx' = "free"
    /\ cvWaiting' = cvWaiting \cup {"t1"}
    /\ threadPc' = [threadPc EXCEPT !["t1"] = "w_blocked"]
    /\ UNCHANGED <<prog, mainPc, out, flushed, ready, cvMissed, spurious, mutexVars, atomicVars, tlsVars>>

\* A spurious wakeup, which std::condition_variable::wait allows: the blocked
\* thread leaves the wait set without a notification (Threads.md:246).
\* At most MaxSpurious of them happen in one run.
CvSpuriousWake ==
    /\ prog = "cv"
    /\ threadPc["t1"] = "w_blocked"
    /\ "t1" \in cvWaiting
    /\ spurious < MaxSpurious
    /\ spurious' = spurious + 1
    /\ cvWaiting' = cvWaiting \ {"t1"}
    /\ threadPc' = [threadPc EXCEPT !["t1"] = "w_relock"]
    /\ UNCHANGED <<prog, mainPc, out, flushed, ready, mtx, cvMissed, mutexVars, atomicVars, tlsVars>>

\* Mutant of CvRelock: the predicate is not tested again after a wakeup
\* (an if in place of the while).
CvRelockNoRecheck ==
    /\ prog = "cv"
    /\ threadPc["t1"] = "w_relock"
    /\ mtx = "free"
    /\ mtx' = "t1"
    /\ threadPc' = [threadPc EXCEPT !["t1"] = "w_print"]
    /\ UNCHANGED <<prog, mainPc, out, flushed, ready, cvWaiting, cvMissed, spurious, mutexVars, atomicVars, tlsVars>>

\* wait(lock) after a wakeup: re-acquires mtx, then the loop tests the
\* predicate again (Threads.md:246).
CvRelock ==
    /\ prog = "cv"
    /\ threadPc["t1"] = "w_relock"
    /\ mtx = "free"
    /\ mtx' = "t1"
    /\ threadPc' = [threadPc EXCEPT !["t1"] = "w_check"]
    /\ UNCHANGED <<prog, mainPc, out, flushed, ready, cvWaiting, cvMissed, spurious, mutexVars, atomicVars, tlsVars>>

\* std::cout << "Thread notified, condition met." (Threads.md:247).
CvPrint ==
    /\ prog = "cv"
    /\ threadPc["t1"] = "w_print"
    /\ out' = Append(out, NotifiedMessage)
    /\ UNCHANGED flushed
    /\ threadPc' = [threadPc EXCEPT !["t1"] = "w_endl"]
    /\ UNCHANGED <<prog, mainPc, cvVars, mutexVars, atomicVars, tlsVars>>

\* << std::endl: the newline (Threads.md:247).
CvPrintEndl ==
    /\ prog = "cv"
    /\ threadPc["t1"] = "w_endl"
    /\ out' = Append(out, "\n")
    /\ UNCHANGED flushed
    /\ threadPc' = [threadPc EXCEPT !["t1"] = "w_flush"]
    /\ UNCHANGED <<prog, mainPc, cvVars, mutexVars, atomicVars, tlsVars>>

\* << std::endl: the flush (Threads.md:247).
CvPrintFlush ==
    /\ prog = "cv"
    /\ threadPc["t1"] = "w_flush"
    /\ flushed' = Len(out)
    /\ threadPc' = [threadPc EXCEPT !["t1"] = "w_unlock"]
    /\ UNCHANGED <<prog, mainPc, out, cvVars, mutexVars, atomicVars, tlsVars>>

\* End of waitThread: the destructor of lock releases mtx (Threads.md:248).
CvWaitUnlock ==
    /\ prog = "cv"
    /\ threadPc["t1"] = "w_unlock"
    /\ mtx' = "free"
    /\ threadPc' = [threadPc EXCEPT !["t1"] = "finished"]
    /\ UNCHANGED <<prog, mainPc, out, flushed, ready, cvWaiting, cvMissed, spurious, mutexVars, atomicVars, tlsVars>>

\* signalThread: std::this_thread::sleep_for returns (Threads.md:251).
CvSignalSleep ==
    /\ prog = "cv"
    /\ threadPc["t2"] = "s_sleep"
    /\ threadPc' = [threadPc EXCEPT !["t2"] = "s_lock"]
    /\ UNCHANGED <<prog, mainPc, out, flushed, cvVars, mutexVars, atomicVars, tlsVars>>

\* std::lock_guard<std::mutex> lock(mtx) acquires mtx (Threads.md:253).
CvSignalLock ==
    /\ prog = "cv"
    /\ threadPc["t2"] = "s_lock"
    /\ mtx = "free"
    /\ mtx' = "t2"
    /\ threadPc' = [threadPc EXCEPT !["t2"] = "s_set"]
    /\ UNCHANGED <<prog, mainPc, out, flushed, ready, cvWaiting, cvMissed, spurious, mutexVars, atomicVars, tlsVars>>

\* ready = true (Threads.md:254).
CvSignalSet ==
    /\ prog = "cv"
    /\ threadPc["t2"] = "s_set"
    /\ ready' = TRUE
    /\ threadPc' = [threadPc EXCEPT !["t2"] = "s_unlock"]
    /\ UNCHANGED <<prog, mainPc, out, flushed, mtx, cvWaiting, cvMissed, spurious, mutexVars, atomicVars, tlsVars>>

\* End of the inner block: the lock_guard releases mtx (Threads.md:255).
CvSignalUnlock ==
    /\ prog = "cv"
    /\ threadPc["t2"] = "s_unlock"
    /\ mtx' = "free"
    /\ threadPc' = [threadPc EXCEPT !["t2"] = "s_notify"]
    /\ UNCHANGED <<prog, mainPc, out, flushed, ready, cvWaiting, cvMissed, spurious, mutexVars, atomicVars, tlsVars>>

\* cv.notify_one(): wakes one blocked thread if there is one, and has no
\* effect otherwise; signalThread then returns (Threads.md:256-257).
CvNotifyOne ==
    /\ prog = "cv"
    /\ threadPc["t2"] = "s_notify"
    /\ IF cvWaiting # {}
         THEN \E w \in cvWaiting :
                /\ cvWaiting' = cvWaiting \ {w}
                /\ threadPc' = [threadPc EXCEPT ![w] = "w_relock", !["t2"] = "finished"]
                /\ UNCHANGED cvMissed
         ELSE /\ threadPc' = [threadPc EXCEPT !["t2"] = "finished"]
              /\ cvMissed' = (cvMissed \/ threadPc["t1"] \in {"unstarted", "w_lock"})
              /\ UNCHANGED cvWaiting
    /\ UNCHANGED <<prog, mainPc, out, flushed, ready, mtx, spurious, mutexVars, atomicVars, tlsVars>>

\* t1.join() (Threads.md:263).
CvJoinT1 ==
    /\ prog = "cv"
    /\ mainPc = "join1"
    /\ threadPc["t1"] = "finished"
    /\ mainPc' = "join2"
    /\ UNCHANGED <<prog, threadPc, out, flushed, cvVars, mutexVars, atomicVars, tlsVars>>

\* t2.join(); return 0 (Threads.md:264-266).
CvJoinT2 ==
    /\ prog = "cv"
    /\ mainPc = "join2"
    /\ threadPc["t2"] = "finished"
    /\ mainPc' = "done"
    /\ UNCHANGED <<prog, threadPc, out, flushed, cvVars, mutexVars, atomicVars, tlsVars>>


(***************************************************************************)
(* The thread_local examples (part_000 407-495).  A thread_local variable  *)
(* has one instance per thread, initialised to 0: tlInstance[t] is the     *)
(* instance of thread t.                                                   *)
(***************************************************************************)

\* std::thread t1 (part_000:437).
TgSpawnT1 ==
    /\ prog = "tl_global"
    /\ mainPc = "spawn1"
    /\ mainPc' = "spawn2"
    /\ threadPc' = [threadPc EXCEPT !["t1"] = "tl_inc"]
    /\ UNCHANGED <<prog, out, flushed, cvVars, mutexVars, atomicVars, tlsVars>>

\* std::thread t2 (part_000:438).
TgSpawnT2 ==
    /\ prog = "tl_global"
    /\ mainPc = "spawn2"
    /\ mainPc' = "join1"
    /\ threadPc' = [threadPc EXCEPT !["t2"] = "tl_inc"]
    /\ UNCHANGED <<prog, out, flushed, cvVars, mutexVars, atomicVars, tlsVars>>

\* ++counter, the read of the calling thread's instance (part_000:432).
TgLoad(t) ==
    /\ prog = "tl_global"
    /\ threadPc[t] = "tl_inc"
    /\ reg' = [reg EXCEPT ![t] = tlInstance[t]]
    /\ threadPc' = [threadPc EXCEPT ![t] = "tl_store"]
    /\ UNCHANGED <<prog, mainPc, out, flushed, cvVars, counter, myMutex, i, shown, atomicVars, tlsVars>>

\* ++counter, the write to the calling thread's instance (part_000:429, 432).
TgStore(t) ==
    /\ prog = "tl_global"
    /\ threadPc[t] = "tl_store"
    /\ tlInstance' = [tlInstance EXCEPT ![t] = reg[t] + 1]
    /\ reg' = [reg EXCEPT ![t] = 0]
    /\ threadPc' = [threadPc EXCEPT ![t] = "tl_print"]
    /\ UNCHANGED <<prog, mainPc, out, flushed, cvVars, counter, myMutex, i, shown, atomicVars, calls, tlPrinted>>

\* std::cout << ... << counter << std::endl: prints the calling thread's
\* instance; incrementCounter returns (part_000:433-434).
TgPrint(t) ==
    /\ prog = "tl_global"
    /\ threadPc[t] = "tl_print"
    /\ tlPrinted' = [tlPrinted EXCEPT ![t] = Append(tlPrinted[t], tlInstance[t])]
    /\ calls' = [calls EXCEPT ![t] = calls[t] + 1]
    /\ threadPc' = [threadPc EXCEPT ![t] = "finished"]
    /\ UNCHANGED <<prog, mainPc, out, flushed, cvVars, mutexVars, atomicVars, tlInstance>>

\* t1.join() (part_000:440).
TgJoinT1 ==
    /\ prog = "tl_global"
    /\ mainPc = "join1"
    /\ threadPc["t1"] = "finished"
    /\ mainPc' = "join2"
    /\ UNCHANGED <<prog, threadPc, out, flushed, cvVars, mutexVars, atomicVars, tlsVars>>

\* t2.join(); return 0 (part_000:441-443).
TgJoinT2 ==
    /\ prog = "tl_global"
    /\ mainPc = "join2"
    /\ threadPc["t2"] = "finished"
    /\ mainPc' = "done"
    /\ UNCHANGED <<prog, threadPc, out, flushed, cvVars, mutexVars, atomicVars, tlsVars>>

\* The number of calls of threadFunction each thread's lambda makes
\* (part_000:471-480).
CallsOf(t) == IF t = "t1" THEN 3 ELSE 2

\* std::thread t1 (part_000:471).
TlSpawnT1 ==
    /\ prog = "tl_local"
    /\ mainPc = "spawn1"
    /\ mainPc' = "spawn2"
    /\ threadPc' = [threadPc EXCEPT !["t1"] = "tl_inc"]
    /\ UNCHANGED <<prog, out, flushed, cvVars, mutexVars, atomicVars, tlsVars>>

\* std::thread t2 (part_000:477).
TlSpawnT2 ==
    /\ prog = "tl_local"
    /\ mainPc = "spawn2"
    /\ mainPc' = "join1"
    /\ threadPc' = [threadPc EXCEPT !["t2"] = "tl_inc"]
    /\ UNCHANGED <<prog, out, flushed, cvVars, mutexVars, atomicVars, tlsVars>>

\* ++call_count, the read of the calling thread's instance (part_000:463).
TlLoad(t) ==
    /\ prog = "tl_local"
    /\ threadPc[t] = "tl_inc"
    /\ reg' = [reg EXCEPT ![t] = tlInstance[t]]
    /\ threadPc' = [threadPc EXCEPT ![t] = "tl_store"]
    /\ UNCHANGED <<prog, mainPc, out, flushed, cvVars, counter, myMutex, i, shown, atomicVars, tlsVars>>

\* Mutant of TlStore: call_count without thread_local, a static shared by
\* both threads, so the write reaches every thread's view of it.
TlStoreShared(t) ==
    /\ prog = "tl_local"
    /\ threadPc[t] = "tl_store"
    /\ tlInstance' = [u \in Threads |-> reg[t] + 1]
    /\ reg' = [reg EXCEPT ![t] = 0]
    /\ threadPc' = [threadPc EXCEPT ![t] = "tl_print"]
    /\ UNCHANGED <<prog, mainPc, out, flushed, cvVars, counter, myMutex, i, shown, atomicVars, calls, tlPrinted>>

\* ++call_count, the write to the calling thread's instance (part_000:462-463).
TlStore(t) ==
    /\ prog = "tl_local"
    /\ threadPc[t] = "tl_store"
    /\ tlInstance' = [tlInstance EXCEPT ![t] = reg[t] + 1]
    /\ reg' = [reg EXCEPT ![t] = 0]
    /\ threadPc' = [threadPc EXCEPT ![t] = "tl_print"]
    /\ UNCHANGED <<prog, mainPc, out, flushed, cvVars, counter, myMutex, i, shown, atomicVars, calls, tlPrinted>>

\* std::cout << ... << call_count << std::endl: prints the calling thread's
\* instance; threadFunction returns, and the lambda calls it again or
\* returns (part_000:465-467, 471-480).
TlPrint(t) ==
    /\ prog = "tl_local"
    /\ threadPc[t] = "tl_print"
    /\ tlPrinted' = [tlPrinted EXCEPT ![t] = Append(tlPrinted[t], tlInstance[t])]
    /\ calls' = [calls EXCEPT ![t] = calls[t] + 1]
    /\ threadPc' = [threadPc EXCEPT ![t] = IF calls[t] + 1 < CallsOf(t) THEN "tl_inc" ELSE "finished"]
    /\ UNCHANGED <<prog, mainPc, out, flushed, cvVars, mutexVars, atomicVars, tlInstance>>

\* t1.join() (part_000:482).
TlJoinT1 ==
    /\ prog = "tl_local"
    /\ mainPc = "join1"
    /\ threadPc["t1"] = "finished"
    /\ mainPc' = "join2"
    /\ UNCHANGED <<prog, threadPc, out, flushed, cvVars, mutexVars, atomicVars, tlsVars>>

\* t2.join(); return 0 (part_000:483-485).
TlJoinT2 ==
    /\ prog = "tl_local"
    /\ mainPc = "join2"
    /\ threadPc["t2"] = "finished"
    /\ mainPc' = "done"
    /\ UNCHANGED <<prog, threadPc, out, flushed, cvVars, mutexVars, atomicVars, tlsVars>>

Next ==
    \/ SpawnT1
    \/ SpawnT2
    \/ \E t \in Threads : PrintStr(t)
    \/ \E t \in Threads : PrintEndl(t)
    \/ \E t \in Threads : PrintFlush(t)
    \/ JoinT1
    \/ JoinT2
    \/ MainPrint
    \/ MainEndl
    \/ MainFlush
    \/ CvSpawnT1
    \/ CvSpawnT2
    \/ CvWaitLock
    \/ CvWaitCheck
    \/ CvWaitBlock
    \/ CvSpuriousWake
    \/ CvRelock
    \/ CvPrint
    \/ CvPrintEndl
    \/ CvPrintFlush
    \/ CvWaitUnlock
    \/ CvSignalSleep
    \/ CvSignalLock
    \/ CvSignalSet
    \/ CvSignalUnlock
    \/ CvNotifyOne
    \/ CvJoinT1
    \/ CvJoinT2
    \/ TgSpawnT1
    \/ TgSpawnT2
    \/ \E t \in Threads : TgLoad(t)
    \/ \E t \in Threads : TgStore(t)
    \/ \E t \in Threads : TgPrint(t)
    \/ TgJoinT1
    \/ TgJoinT2
    \/ TlSpawnT1
    \/ TlSpawnT2
    \/ \E t \in Threads : TlLoad(t)
    \/ \E t \in Threads : TlStore(t)
    \/ \E t \in Threads : TlPrint(t)
    \/ TlJoinT1
    \/ TlJoinT2

Spec == Init /\ [][Next]_vars

(***************************************************************************)
(* The lock_guard counter (Threads.md 116-139).                            *)
(***************************************************************************)

\* The number of increments each thread makes (Threads.md:124, 153, 183).
Iterations == 100

\* std::thread t1(safeIncrement) (Threads.md:131).
LgSpawnT1 ==
    /\ prog = "lock_guard"
    /\ mainPc = "spawn1"
    /\ mainPc' = "spawn2"
    /\ threadPc' = [threadPc EXCEPT !["t1"] = "loop"]
    /\ UNCHANGED <<prog, out, flushed, cvVars, mutexVars, atomicVars, tlsVars>>

\* std::thread t2(safeIncrement) (Threads.md:132).
LgSpawnT2 ==
    /\ prog = "lock_guard"
    /\ mainPc = "spawn2"
    /\ mainPc' = "join1"
    /\ threadPc' = [threadPc EXCEPT !["t2"] = "loop"]
    /\ UNCHANGED <<prog, out, flushed, cvVars, mutexVars, atomicVars, tlsVars>>

\* t1.join() (Threads.md:134).
LgJoinT1 ==
    /\ prog = "lock_guard"
    /\ mainPc = "join1"
    /\ threadPc["t1"] = "finished"
    /\ mainPc' = "join2"
    /\ UNCHANGED <<prog, threadPc, out, flushed, cvVars, mutexVars, atomicVars, tlsVars>>

\* t2.join() (Threads.md:135).
LgJoinT2 ==
    /\ prog = "lock_guard"
    /\ mainPc = "join2"
    /\ threadPc["t2"] = "finished"
    /\ mainPc' = "print"
    /\ UNCHANGED <<prog, threadPc, out, flushed, cvVars, mutexVars, atomicVars, tlsVars>>

\* std::cout << "Counter value: " << counter << std::endl; return 0
\* (Threads.md:137-138).
LgPrintCounter ==
    /\ prog = "lock_guard"
    /\ mainPc = "print"
    /\ shown' = counter
    /\ mainPc' = "done"
    /\ UNCHANGED <<prog, threadPc, out, flushed, cvVars, counter, myMutex, i, reg, atomicVars, tlsVars>>

\* Mutant of LgLock: the guard does not wait for myMutex to be free.
LgLockNoExclusion(t) ==
    /\ prog = "lock_guard"
    /\ threadPc[t] = "lock"
    /\ myMutex' = t
    /\ threadPc' = [threadPc EXCEPT ![t] = "load"]
    /\ UNCHANGED <<prog, mainPc, out, flushed, cvVars, counter, i, reg, shown, atomicVars, tlsVars>>

\* safeIncrement: the loop test i < 100 (Threads.md:124).
LgLoopTest(t) ==
    /\ prog = "lock_guard"
    /\ threadPc[t] = "loop"
    /\ threadPc' = [threadPc EXCEPT ![t] = IF i[t] < Iterations THEN "lock" ELSE "finished"]
    /\ UNCHANGED <<prog, mainPc, out, flushed, cvVars, mutexVars, atomicVars, tlsVars>>

\* std::lock_guard<std::mutex> guard(myMutex): acquires myMutex (Threads.md:125).
LgLock(t) ==
    /\ prog = "lock_guard"
    /\ threadPc[t] = "lock"
    /\ myMutex = "free"
    /\ myMutex' = t
    /\ threadPc' = [threadPc EXCEPT ![t] = "load"]
    /\ UNCHANGED <<prog, mainPc, out, flushed, cvVars, counter, i, reg, shown, atomicVars, tlsVars>>

\* ++counter, the read of counter (Threads.md:126).
LgLoad(t) ==
    /\ prog = "lock_guard"
    /\ threadPc[t] = "load"
    /\ reg' = [reg EXCEPT ![t] = counter]
    /\ threadPc' = [threadPc EXCEPT ![t] = "store"]
    /\ UNCHANGED <<prog, mainPc, out, flushed, cvVars, counter, myMutex, i, shown, atomicVars, tlsVars>>

\* ++counter, the write of the incremented value; the loaded value is a
\* temporary that ends with the expression (Threads.md:126).
LgStore(t) ==
    /\ prog = "lock_guard"
    /\ threadPc[t] = "store"
    /\ counter' = reg[t] + 1
    /\ reg' = [reg EXCEPT ![t] = 0]
    /\ threadPc' = [threadPc EXCEPT ![t] = "unlock"]
    /\ UNCHANGED <<prog, mainPc, out, flushed, cvVars, myMutex, i, shown, atomicVars, tlsVars>>

\* End of the loop body: the destructor of guard releases myMutex; then ++i (Threads.md:127, 124).
LgUnlock(t) ==
    /\ prog = "lock_guard"
    /\ threadPc[t] = "unlock"
    /\ myMutex' = "free"
    /\ i' = [i EXCEPT ![t] = i[t] + 1]
    /\ threadPc' = [threadPc EXCEPT ![t] = "loop"]
    /\ UNCHANGED <<prog, mainPc, out, flushed, cvVars, counter, reg, shown, atomicVars, tlsVars>>

(***************************************************************************)
(* The lock()/unlock() counter (Threads.md 145-169).                       *)
(***************************************************************************)

\* std::thread t1(safeIncrement) (Threads.md:161).
LuSpawnT1 ==
    /\ prog = "lock_unlock"
    /\ mainPc = "spawn1"
    /\ mainPc' = "spawn2"
    /\ threadPc' = [threadPc EXCEPT !["t1"] = "loop"]
    /\ UNCHANGED <<prog, out, flushed, cvVars, mutexVars, atomicVars, tlsVars>>

\* std::thread t2(safeIncrement) (Threads.md:162).
LuSpawnT2 ==
    /\ prog = "lock_unlock"
    /\ mainPc = "spawn2"
    /\ mainPc' = "join1"
    /\ threadPc' = [threadPc EXCEPT !["t2"] = "loop"]
    /\ UNCHANGED <<prog, out, flushed, cvVars, mutexVars, atomicVars, tlsVars>>

\* t1.join() (Threads.md:164).
LuJoinT1 ==
    /\ prog = "lock_unlock"
    /\ mainPc = "join1"
    /\ threadPc["t1"] = "finished"
    /\ mainPc' = "join2"
    /\ UNCHANGED <<prog, threadPc, out, flushed, cvVars, mutexVars, atomicVars, tlsVars>>

\* t2.join() (Threads.md:165).
LuJoinT2 ==
    /\ prog = "lock_unlock"
    /\ mainPc = "join2"
    /\ threadPc["t2"] = "finished"
    /\ mainPc' = "print"
    /\ UNCHANGED <<prog, threadPc, out, flushed, cvVars, mutexVars, atomicVars, tlsVars>>

\* std::cout << "Counter value: " << counter << std::endl; return 0
\* (Threads.md:167-168).
LuPrintCounter ==
    /\ prog = "lock_unlock"
    /\ mainPc = "print"
    /\ shown' = counter
    /\ mainPc' = "done"
    /\ UNCHANGED <<prog, threadPc, out, flushed, cvVars, counter, myMutex, i, reg, atomicVars, tlsVars>>

\* safeIncrement: the loop test i < 100 (Threads.md:153).
LuLoopTest(t) ==
    /\ prog = "lock_unlock"
    /\ threadPc[t] = "loop"
    /\ threadPc' = [threadPc EXCEPT ![t] = IF i[t] < Iterations THEN "lock" ELSE "finished"]
    /\ UNCHANGED <<prog, mainPc, out, flushed, cvVars, mutexVars, atomicVars, tlsVars>>

\* myMutex.lock() (Threads.md:154).
LuLock(t) ==
    /\ prog = "lock_unlock"
    /\ threadPc[t] = "lock"
    /\ myMutex = "free"
    /\ myMutex' = t
    /\ threadPc' = [threadPc EXCEPT ![t] = "load"]
    /\ UNCHANGED <<prog, mainPc, out, flushed, cvVars, counter, i, reg, shown, atomicVars, tlsVars>>

\* ++counter, the read of counter (Threads.md:155).
LuLoad(t) ==
    /\ prog = "lock_unlock"
    /\ threadPc[t] = "load"
    /\ reg' = [reg EXCEPT ![t] = counter]
    /\ threadPc' = [threadPc EXCEPT ![t] = "store"]
    /\ UNCHANGED <<prog, mainPc, out, flushed, cvVars, counter, myMutex, i, shown, atomicVars, tlsVars>>

\* ++counter, the write of the incremented value; the loaded value is a
\* temporary that ends with the expression (Threads.md:155).
LuStore(t) ==
    /\ prog = "lock_unlock"
    /\ threadPc[t] = "store"
    /\ counter' = reg[t] + 1
    /\ reg' = [reg EXCEPT ![t] = 0]
    /\ threadPc' = [threadPc EXCEPT ![t] = "unlock"]
    /\ UNCHANGED <<prog, mainPc, out, flushed, cvVars, myMutex, i, shown, atomicVars, tlsVars>>

\* myMutex.unlock(); then ++i (Threads.md:156, 153).
LuUnlock(t) ==
    /\ prog = "lock_unlock"
    /\ threadPc[t] = "unlock"
    /\ myMutex' = "free"
    /\ i' = [i EXCEPT ![t] = i[t] + 1]
    /\ threadPc' = [threadPc EXCEPT ![t] = "loop"]
    /\ UNCHANGED <<prog, mainPc, out, flushed, cvVars, counter, reg, shown, atomicVars, tlsVars>>

(***************************************************************************)
(* The unique_lock counter (Threads.md 174-198): the lock is taken once,   *)
(* before the loop, and released when flexibleIncrement returns.           *)
(***************************************************************************)

\* std::thread t1(flexibleIncrement) (Threads.md:190).
UlSpawnT1 ==
    /\ prog = "unique_lock"
    /\ mainPc = "spawn1"
    /\ mainPc' = "spawn2"
    /\ threadPc' = [threadPc EXCEPT !["t1"] = "lock"]
    /\ UNCHANGED <<prog, out, flushed, cvVars, mutexVars, atomicVars, tlsVars>>

\* std::thread t2(flexibleIncrement) (Threads.md:191).
UlSpawnT2 ==
    /\ prog = "unique_lock"
    /\ mainPc = "spawn2"
    /\ mainPc' = "join1"
    /\ threadPc' = [threadPc EXCEPT !["t2"] = "lock"]
    /\ UNCHANGED <<prog, out, flushed, cvVars, mutexVars, atomicVars, tlsVars>>

\* t1.join() (Threads.md:193).
UlJoinT1 ==
    /\ prog = "unique_lock"
    /\ mainPc = "join1"
    /\ threadPc["t1"] = "finished"
    /\ mainPc' = "join2"
    /\ UNCHANGED <<prog, threadPc, out, flushed, cvVars, mutexVars, atomicVars, tlsVars>>

\* t2.join() (Threads.md:194).
UlJoinT2 ==
    /\ prog = "unique_lock"
    /\ mainPc = "join2"
    /\ threadPc["t2"] = "finished"
    /\ mainPc' = "print"
    /\ UNCHANGED <<prog, threadPc, out, flushed, cvVars, mutexVars, atomicVars, tlsVars>>

\* std::cout << "Counter value: " << counter << std::endl; return 0
\* (Threads.md:196-197).
UlPrintCounter ==
    /\ prog = "unique_lock"
    /\ mainPc = "print"
    /\ shown' = counter
    /\ mainPc' = "done"
    /\ UNCHANGED <<prog, threadPc, out, flushed, cvVars, counter, myMutex, i, reg, atomicVars, tlsVars>>

\* std::unique_lock<std::mutex> lock(myMutex): acquires myMutex (Threads.md:182).
UlLock(t) ==
    /\ prog = "unique_lock"
    /\ threadPc[t] = "lock"
    /\ myMutex = "free"
    /\ myMutex' = t
    /\ threadPc' = [threadPc EXCEPT ![t] = "loop"]
    /\ UNCHANGED <<prog, mainPc, out, flushed, cvVars, counter, i, reg, shown, atomicVars, tlsVars>>

\* flexibleIncrement: the loop test i < 100 (Threads.md:183).
UlLoopTest(t) ==
    /\ prog = "unique_lock"
    /\ threadPc[t] = "loop"
    /\ threadPc' = [threadPc EXCEPT ![t] = IF i[t] < Iterations THEN "load" ELSE "unlock"]
    /\ UNCHANGED <<prog, mainPc, out, flushed, cvVars, mutexVars, atomicVars, tlsVars>>

\* ++counter, the read of counter (Threads.md:184).
UlLoad(t) ==
    /\ prog = "unique_lock"
    /\ threadPc[t] = "load"
    /\ reg' = [reg EXCEPT ![t] = counter]
    /\ threadPc' = [threadPc EXCEPT ![t] = "store"]
    /\ UNCHANGED <<prog, mainPc, out, flushed, cvVars, counter, myMutex, i, shown, atomicVars, tlsVars>>

\* ++counter, the write of the incremented value, which ends the temporary;
\* then ++i (Threads.md:183-184).
UlStore(t) ==
    /\ prog = "unique_lock"
    /\ threadPc[t] = "store"
    /\ counter' = reg[t] + 1
    /\ reg' = [reg EXCEPT ![t] = 0]
    /\ i' = [i EXCEPT ![t] = i[t] + 1]
    /\ threadPc' = [threadPc EXCEPT ![t] = "loop"]
    /\ UNCHANGED <<prog, mainPc, out, flushed, cvVars, myMutex, shown, atomicVars, tlsVars>>

\* End of flexibleIncrement: the destructor of lock releases myMutex
\* (Threads.md:186-187).
UlUnlock(t) ==
    /\ prog = "unique_lock"
    /\ threadPc[t] = "unlock"
    /\ myMutex' = "free"
    /\ threadPc' = [threadPc EXCEPT ![t] = "finished"]
    /\ UNCHANGED <<prog, mainPc, out, flushed, cvVars, counter, i, reg, shown, atomicVars, tlsVars>>

\* The programs MutexSpec runs.
MutexPrograms == {"lock_guard", "lock_unlock", "unique_lock"}

MutexInit ==
    /\ prog \in MutexPrograms
    /\ InitState

MutexNext ==
    \/ LgSpawnT1
    \/ LgSpawnT2
    \/ LgJoinT1
    \/ LgJoinT2
    \/ LgPrintCounter
    \/ \E t \in Threads : LgLoopTest(t)
    \/ \E t \in Threads : LgLock(t)
    \/ \E t \in Threads : LgLoad(t)
    \/ \E t \in Threads : LgStore(t)
    \/ \E t \in Threads : LgUnlock(t)
    \/ LuSpawnT1
    \/ LuSpawnT2
    \/ LuJoinT1
    \/ LuJoinT2
    \/ LuPrintCounter
    \/ \E t \in Threads : LuLoopTest(t)
    \/ \E t \in Threads : LuLock(t)
    \/ \E t \in Threads : LuLoad(t)
    \/ \E t \in Threads : LuStore(t)
    \/ \E t \in Threads : LuUnlock(t)
    \/ UlSpawnT1
    \/ UlSpawnT2
    \/ UlJoinT1
    \/ UlJoinT2
    \/ UlPrintCounter
    \/ \E t \in Threads : UlLock(t)
    \/ \E t \in Threads : UlLoopTest(t)
    \/ \E t \in Threads : UlLoad(t)
    \/ \E t \in Threads : UlStore(t)
    \/ \E t \in Threads : UlUnlock(t)

MutexSpec == MutexInit /\ [][MutexNext]_vars

(***************************************************************************)
(* The std::atomic example (Threads.md 297-332).  t1 and t2 run            *)
(* incrementAtomic, t3 runs updateValue(10, 30).  The loop test and ++i    *)
(* touch only the thread's own i, so one iteration is one step: the atomic *)
(* read-modify-write of atomicCounter.                                     *)
(***************************************************************************)

\* The number of increments each thread makes (Threads.md:305).
AtomicIterations == 1000

\* The value updateValue is asked to store (Threads.md:322).
NewValue == 30

\* std::thread t1(incrementAtomic) (Threads.md:320).
AtSpawnT1 ==
    /\ prog = "atomic"
    /\ mainPc = "spawn1"
    /\ mainPc' = "spawn2"
    /\ threadPc' = [threadPc EXCEPT !["t1"] = "a_loop"]
    /\ UNCHANGED <<prog, out, flushed, cvVars, mutexVars, atomicVars, tlsVars>>

\* std::thread t2(incrementAtomic) (Threads.md:321).
AtSpawnT2 ==
    /\ prog = "atomic"
    /\ mainPc = "spawn2"
    /\ mainPc' = "spawn3"
    /\ threadPc' = [threadPc EXCEPT !["t2"] = "a_loop"]
    /\ UNCHANGED <<prog, out, flushed, cvVars, mutexVars, atomicVars, tlsVars>>

\* std::thread t3(updateValue, 10, 30) (Threads.md:322).
AtSpawnT3 ==
    /\ prog = "atomic"
    /\ mainPc = "spawn3"
    /\ mainPc' = "join1"
    /\ t3Pc' = "u_load"
    /\ UNCHANGED <<prog, threadPc, out, flushed, cvVars, mutexVars, tlsVars,
                   atomicCounter, sharedValue, current, expected, updated, shownAtomic, shownShared>>

\* Mutant of AtIncrement: atomicCounter++ as a plain int increment, a read
\* and a later write.
AtIncrementNotAtomic(t) ==
    /\ prog = "atomic"
    /\ \/ /\ threadPc[t] = "a_loop"
          /\ i[t] < AtomicIterations
          /\ reg' = [reg EXCEPT ![t] = atomicCounter]
          /\ threadPc' = [threadPc EXCEPT ![t] = "a_store"]
          /\ UNCHANGED <<atomicCounter, i>>
       \/ /\ threadPc[t] = "a_store"
          /\ atomicCounter' = reg[t] + 1
          /\ reg' = [reg EXCEPT ![t] = 0]
          /\ i' = [i EXCEPT ![t] = i[t] + 1]
          /\ threadPc' = [threadPc EXCEPT ![t] = "a_loop"]
    /\ UNCHANGED <<prog, mainPc, out, flushed, cvVars, counter, myMutex, shown, tlsVars,
                   sharedValue, t3Pc, current, expected, updated, shownAtomic, shownShared>>

\* incrementAtomic, one iteration: i < 1000 holds, atomicCounter++ is one
\* atomic read-modify-write, then ++i (Threads.md:305-306).
AtIncrement(t) ==
    /\ prog = "atomic"
    /\ threadPc[t] = "a_loop"
    /\ i[t] < AtomicIterations
    /\ atomicCounter' = atomicCounter + 1
    /\ i' = [i EXCEPT ![t] = i[t] + 1]
    /\ UNCHANGED <<prog, mainPc, threadPc, out, flushed, cvVars, counter, myMutex, reg, shown, tlsVars,
                   sharedValue, t3Pc, current, expected, updated, shownAtomic, shownShared>>

\* incrementAtomic: i < 1000 fails and the function returns (Threads.md:305-308).
AtLoopExit(t) ==
    /\ prog = "atomic"
    /\ threadPc[t] = "a_loop"
    /\ i[t] >= AtomicIterations
    /\ threadPc' = [threadPc EXCEPT ![t] = "finished"]
    /\ UNCHANGED <<prog, mainPc, out, flushed, cvVars, mutexVars, atomicVars, tlsVars>>

\* updateValue: int current = sharedValue.load() (Threads.md:311).
AtLoadCurrent ==
    /\ prog = "atomic"
    /\ t3Pc = "u_load"
    /\ current' = sharedValue
    /\ t3Pc' = "u_cas"
    /\ UNCHANGED <<prog, mainPc, threadPc, out, flushed, cvVars, mutexVars, tlsVars,
                   atomicCounter, sharedValue, expected, updated, shownAtomic, shownShared>>

\* sharedValue.compare_exchange_strong(expected, newValue): stores newValue
\* if sharedValue equals expected, else copies sharedValue into expected;
\* the result selects the branch (Threads.md:312).
AtCompareExchange ==
    /\ prog = "atomic"
    /\ t3Pc = "u_cas"
    /\ IF sharedValue = expected
         THEN /\ sharedValue' = NewValue
              /\ t3Pc' = "u_print_updated"
              /\ UNCHANGED expected
         ELSE /\ expected' = sharedValue
              /\ t3Pc' = "u_print_found"
              /\ UNCHANGED sharedValue
    /\ UNCHANGED <<prog, mainPc, threadPc, out, flushed, cvVars, mutexVars, tlsVars,
                   atomicCounter, current, updated, shownAtomic, shownShared>>

\* updateValue: the line of the branch taken is printed and the function
\* returns (Threads.md:313-317).
AtPrintBranch ==
    /\ prog = "atomic"
    /\ t3Pc \in {"u_print_updated", "u_print_found"}
    /\ updated' = IF t3Pc = "u_print_updated" THEN "updated" ELSE "found"
    /\ t3Pc' = "finished"
    /\ UNCHANGED <<prog, mainPc, threadPc, out, flushed, cvVars, mutexVars, tlsVars,
                   atomicCounter, sharedValue, current, expected, shownAtomic, shownShared>>

\* t1.join() (Threads.md:324).
AtJoinT1 ==
    /\ prog = "atomic"
    /\ mainPc = "join1"
    /\ threadPc["t1"] = "finished"
    /\ mainPc' = "join2"
    /\ UNCHANGED <<prog, threadPc, out, flushed, cvVars, mutexVars, atomicVars, tlsVars>>

\* t2.join() (Threads.md:325).
AtJoinT2 ==
    /\ prog = "atomic"
    /\ mainPc = "join2"
    /\ threadPc["t2"] = "finished"
    /\ mainPc' = "join3"
    /\ UNCHANGED <<prog, threadPc, out, flushed, cvVars, mutexVars, atomicVars, tlsVars>>

\* t3.join() (Threads.md:326).
AtJoinT3 ==
    /\ prog = "atomic"
    /\ mainPc = "join3"
    /\ t3Pc = "finished"
    /\ mainPc' = "print"
    /\ UNCHANGED <<prog, threadPc, out, flushed, cvVars, mutexVars, atomicVars, tlsVars>>

\* std::cout << "Atomic counter value: " << atomicCounter.load() (Threads.md:328).
AtPrintCounter ==
    /\ prog = "atomic"
    /\ mainPc = "print"
    /\ shownAtomic' = atomicCounter
    /\ mainPc' = "print2"
    /\ UNCHANGED <<prog, threadPc, out, flushed, cvVars, mutexVars, tlsVars,
                   atomicCounter, sharedValue, t3Pc, current, expected, updated, shownShared>>

\* std::cout << "Final shared value: " << sharedValue.load(); return 0
\* (Threads.md:329-331).
AtPrintShared ==
    /\ prog = "atomic"
    /\ mainPc = "print2"
    /\ shownShared' = sharedValue
    /\ mainPc' = "done"
    /\ UNCHANGED <<prog, threadPc, out, flushed, cvVars, mutexVars, tlsVars,
                   atomicCounter, sharedValue, t3Pc, current, expected, updated, shownAtomic>>

AtomicInit ==
    /\ prog = "atomic"
    /\ InitState

AtomicNext ==
    \/ AtSpawnT1
    \/ AtSpawnT2
    \/ AtSpawnT3
    \/ \E t \in Threads : AtIncrement(t)
    \/ \E t \in Threads : AtLoopExit(t)
    \/ AtLoadCurrent
    \/ AtCompareExchange
    \/ AtPrintBranch
    \/ AtJoinT1
    \/ AtJoinT2
    \/ AtJoinT3
    \/ AtPrintCounter
    \/ AtPrintShared

AtomicSpec == AtomicInit /\ [][AtomicNext]_vars

(***************************************************************************)
(* Fairness for the condition-variable example: every thread that can take *)
(* a step of its code eventually takes it.  A spurious wakeup is allowed   *)
(* but never guaranteed, so it gets no fairness.                           *)
(***************************************************************************)

\* The steps of waitThread other than a spurious wakeup (Threads.md:244-248).
CvWaitSteps ==
    \/ CvWaitLock
    \/ CvWaitCheck
    \/ CvWaitBlock
    \/ CvRelock
    \/ CvPrint
    \/ CvPrintEndl
    \/ CvPrintFlush
    \/ CvWaitUnlock

\* The steps of signalThread (Threads.md:250-257).
CvSignalSteps ==
    \/ CvSignalSleep
    \/ CvSignalLock
    \/ CvSignalSet
    \/ CvSignalUnlock
    \/ CvNotifyOne

\* The steps of main in the condition-variable example (Threads.md:259-267).
CvMainSteps ==
    \/ CvSpawnT1
    \/ CvSpawnT2
    \/ CvJoinT1
    \/ CvJoinT2

LiveSpec ==
    /\ Spec
    /\ WF_vars(CvWaitSteps)
    /\ WF_vars(CvSignalSteps)
    /\ WF_vars(CvMainSteps)

(***************************************************************************)
(* Threading/Simple.cpp                                                    *)
(***************************************************************************)

\* C28: in Simple.cpp main is at or past the line that prints "Threads have
\* finished execution." only when both t1 and t2 have finished printMessage,
\* and wherever that line stands in the output both thread messages stand
\* before it.
FinalLineAfterBothThreads ==
    prog = "simple" =>
        /\ mainPc \in {"print", "endl", "flush", "done"} =>
               \A t \in Threads : threadPc[t] = "finished"
        /\ \A k \in 1..Len(out) :
               out[k] = FinalMessage =>
                   \A t \in Threads : \E j \in 1..(k - 1) : out[j] = Message(t)

\* Witness of C28: main has printed the final line and returned, in a run
\* where t2, which was started second, emitted its message first.
FinalLineWitness ==
    /\ prog = "simple"
    /\ mainPc = "done"
    /\ Len(out) = 6
    /\ out[1] = Message("t2")
    /\ out[5] = FinalMessage

(***************************************************************************)
(* The condition-variable example                                          *)
(***************************************************************************)

\* waitThread is past cv.wait.
CvPassedWait == threadPc["t1"] \in {"w_print", "w_endl", "w_flush", "w_unlock", "finished"}

\* Both threads have returned and main has joined them.
CvTerminated ==
    /\ mainPc = "done"
    /\ \A t \in Threads : threadPc[t] = "finished"

\* C30: in the condition-variable example waitThread is past cv.wait, and
\* its message is in the output, only in states where ready is true; and
\* every fair run ends with both threads finished and joined.
CvWaitsForReadyAndTerminates ==
    /\ [](prog = "cv" /\ CvPassedWait => ready)
    /\ [](prog = "cv" /\ (\E k \in 1..Len(out) : out[k] = NotifiedMessage) => ready)
    /\ ((prog = "cv") ~> CvTerminated)

\* Witness of C30: signalThread issued notify_one before waitThread entered
\* cv.wait, and yet waitThread printed its message and both threads ended.
CvEarlyNotifyWitness ==
    /\ prog = "cv"
    /\ cvMissed
    /\ CvTerminated
    /\ out = <<NotifiedMessage, "\n">>

(***************************************************************************)
(* The mutex counter examples                                              *)
(***************************************************************************)

\* Thread t holds myMutex by the program text: it is between the
\* acquisition and the release of the lock.
InCriticalSection(t) ==
    IF prog = "unique_lock"
      THEN threadPc[t] \in {"loop", "load", "store", "unlock"}
      ELSE threadPc[t] \in {"load", "store", "unlock"}

\* The number of ++counter statements thread t has completed.
IncrementsDone(t) ==
    IF prog # "unique_lock" /\ threadPc[t] = "unlock" THEN i[t] + 1 ELSE i[t]

\* C29: in the three mutex counter examples the two threads are never both
\* inside the critical section, counter always equals the number of
\* increments completed so far (none is lost), and once main has joined both
\* threads counter is 200, which is also the value main prints.
MutexCounterCorrect ==
    prog \in MutexPrograms =>
        /\ ~ (InCriticalSection("t1") /\ InCriticalSection("t2"))
        /\ \A t \in Threads : InCriticalSection(t) => myMutex = t
        /\ counter = IncrementsDone("t1") + IncrementsDone("t2")
        /\ mainPc \in {"print", "done"} => counter = 200
        /\ shown # -1 => shown = 200

\* Witness of C29: both threads made all their increments under the lock_guard,
\* main joined them and printed 200.
MutexCounterWitness ==
    /\ prog = "lock_guard"
    /\ mainPc = "done"
    /\ \A t \in Threads : threadPc[t] = "finished" /\ i[t] = Iterations
    /\ shown = 200

(***************************************************************************)
(* The std::atomic example                                                 *)
(***************************************************************************)

\* C31: in the atomic example atomicCounter always equals the number of
\* increments the two threads have made (none is lost), so it is 2000 once
\* main has joined the threads, which is the value main prints; the
\* compare-exchange of sharedValue from 10 to 30 succeeds, so updateValue
\* takes the "updated" branch and the final shared value, which main prints,
\* is 30.
AtomicExampleCorrect ==
    prog = "atomic" =>
        /\ atomicCounter = i["t1"] + i["t2"]
        /\ mainPc \in {"print", "print2", "done"} => atomicCounter = 2000
        /\ shownAtomic # -1 => shownAtomic = 2000
        /\ t3Pc # "u_print_found" /\ updated # "found"
        /\ t3Pc \in {"u_print_updated", "finished"} => sharedValue = 30
        /\ shownShared # -1 => shownShared = 30

\* Witness of C31: all three threads have run and been joined, main printed
\* 2000 and 30, and updateValue reported the update.
AtomicExampleWitness ==
    /\ prog = "atomic"
    /\ mainPc = "done"
    /\ \A t \in Threads : i[t] = AtomicIterations
    /\ updated = "updated"
    /\ shownAtomic = 2000
    /\ shownShared = 30

(***************************************************************************)
(* The thread_local examples                                               *)
(***************************************************************************)

\* The sequence 1, 2, ..., n.
CountTo(n) == [k \in 1..n |-> k]

\* C32: in the thread_local examples each thread sees only its own
\* increments: in the global example a thread prints nothing but 1, and a
\* finished thread has printed exactly 1; in the function-scope example a
\* thread's k-th call prints k, so the thread with three calls ends with
\* 1, 2, 3 and the thread with two calls with 1, 2.
ThreadLocalInstances ==
    /\ prog = "tl_global" =>
           \A t \in Threads :
               /\ tlPrinted[t] \in {<<>>, <<1>>}
               /\ threadPc[t] = "finished" => tlPrinted[t] = <<1>>
    /\ prog = "tl_local" =>
           /\ \A t \in Threads : tlPrinted[t] = CountTo(calls[t])
           /\ threadPc["t1"] = "finished" => tlPrinted["t1"] = <<1, 2, 3>>
           /\ threadPc["t2"] = "finished" => tlPrinted["t2"] = <<1, 2>>

\* Witness of C32: in the function-scope example both threads have made all
\* their calls and were joined; t1 printed 1, 2, 3 and t2 printed 1, 2.
ThreadLocalWitness ==
    /\ prog = "tl_local"
    /\ mainPc = "done"
    /\ tlPrinted["t1"] = <<1, 2, 3>>
    /\ tlPrinted["t2"] = <<1, 2>>

\* Type correctness of the state.
TypeOK ==
    /\ mainPc \in {"spawn1", "spawn2", "spawn3", "join1", "join2", "join3",
                   "print", "print2", "endl", "flush", "done"}
    /\ threadPc \in [Threads -> {"unstarted", "str", "endl", "flush", "finished",
                                 "w_lock", "w_check", "w_wait", "w_blocked", "w_relock",
                                 "w_print", "w_endl", "w_flush", "w_unlock",
                                 "s_sleep", "s_lock", "s_set", "s_unlock", "s_notify",
                                 "loop", "lock", "load", "store", "unlock",
                                 "a_loop", "a_store", "tl_inc", "tl_store", "tl_print"}]
    /\ out \in Seq({Message("t1"), Message("t2"), FinalMessage, NotifiedMessage, "\n"})
    /\ Len(out) <= 6
    /\ flushed \in 0..Len(out)
    /\ ready \in BOOLEAN
    /\ mtx \in Threads \cup {"free"}
    /\ cvWaiting \subseteq Threads
    /\ cvMissed \in BOOLEAN
    /\ spurious \in 0..MaxSpurious
    /\ counter \in Nat
    /\ myMutex \in Threads \cup {"free"}
    /\ i \in [Threads -> Nat]
    /\ reg \in [Threads -> Nat]
    /\ shown \in {-1} \cup Nat
    /\ atomicCounter \in Nat
    /\ sharedValue \in Nat
    /\ t3Pc \in {"unstarted", "u_load", "u_cas", "u_print_updated", "u_print_found", "finished"}
    /\ current \in {-1} \cup Nat
    /\ expected \in Nat
    /\ updated \in {"none", "updated", "found"}
    /\ shownAtomic \in {-1} \cup Nat
    /\ shownShared \in {-1} \cup Nat
    /\ tlInstance \in [Threads -> Nat]
    /\ calls \in [Threads -> Nat]
    /\ tlPrinted \in [Threads -> Seq(Nat)]

====
